---- MODULE Spec2Model ----
(***************************************************************************)
(* Model of scripts/extract_pihole_dns.py: the Pi-hole DNS record          *)
(* extractor.  extract_records visits the configured servers one at a      *)
(* time; for each it builds a PiHoleAPI client, fetches the host entries   *)
(* (authenticating lazily), folds them into a_aaaa_records, fetches the    *)
(* CNAME records and folds them into cname_records.  Any exception ends    *)
(* the current server's iteration only.                                    *)
(*                                                                         *)
(* Strings are sequences of one-character strings, so that str.strip and   *)
(* str.split are modelled by what they do.  HTTP traffic goes through a    *)
(* requests session whose adapter carries urllib3's                        *)
(* Retry(total=DEFAULT_RETRIES, status_forcelist=[429,500,502,503,504],    *)
(* allowed_methods=[GET, POST]); the other Retry parameters keep their     *)
(* urllib3 defaults (respect_retry_after_header=True, raise_on_status=     *)
(* True).  main then dumps the two mappings to the output file and returns  *)
(* the exit code.                                                          *)
(*                                                                         *)
(* Three functions are also run on their own, on inputs drawn from bounded *)
(* sets: parse_host_entry of the extractor, and write_if_changed and       *)
(* build_inventory_map of ansible/library/vcenter_inventory_ubuntu_to_ini. *)
(***************************************************************************)
EXTENDS Integers, Sequences, FiniteSets, TLC

\* ------------------------------------------------------------------ bounds
\* Longest server list given to extract_records.
MaxServers == 2
\* Longest JSON array a backend returns for one endpoint.
MaxBatch == 2
\* Longest host entry given to parse_host_entry on its own.
MaxEntryLen == 5
\* Longest text given to write_if_changed, or found in the file.
MaxText == 2
\* Longest VM list given to build_inventory_map.
MaxVMs == 2

\* --------------------------------------------------------------- constants
DEFAULT_RETRIES == 3

\* Variant: 401 listed among the statuses that are retried.
status_forcelist_with_401 == {401, 429, 500, 502, 503, 504}

\* Retry(status_forcelist=...)
status_forcelist == {429, 500, 502, 503, 504}
\* urllib3 Retry.RETRY_AFTER_STATUS_CODES, honoured because
\* respect_retry_after_header is left at its default.
RETRY_AFTER_STATUS_CODES == {413, 429, 503}

\* ----------------------------------------------------------------- strings
IsSpace(c) == c \in {" ", "\t"}

RECURSIVE LStrip(_)
LStrip(s) == IF s # <<>> /\ IsSpace(Head(s)) THEN LStrip(Tail(s)) ELSE s

RECURSIVE RStrip(_)
RStrip(s) ==
    IF s # <<>> /\ IsSpace(s[Len(s)]) THEN RStrip(SubSeq(s, 1, Len(s) - 1)) ELSE s

\* str.strip()
Strip(s) == RStrip(LStrip(s))

\* Variant: the index of the last whitespace character (a split from the
\* right).
LastSpace(s, i) ==
    IF \E j \in i..Len(s) : IsSpace(s[j])
    THEN CHOOSE j \in i..Len(s) :
             IsSpace(s[j]) /\ \A k \in (j + 1)..Len(s) : ~IsSpace(s[k])
    ELSE Len(s) + 1

\* Index of the first whitespace character of s, or Len(s) + 1.
RECURSIVE FirstSpace(_, _)
FirstSpace(s, i) ==
    IF i > Len(s) \/ IsSpace(s[i]) THEN i ELSE FirstSpace(s, i + 1)

\* str.split(maxsplit=1): leading whitespace is skipped, the first token ends
\* at the first whitespace run, the run is skipped, and what follows is the
\* second part as it stands (trailing whitespace included).
SplitMax1(s) ==
    LET t == LStrip(s)
        i == FirstSpace(t, 1)
        rest == LStrip(SubSeq(t, i, Len(t)))
    IN  IF t = <<>> THEN <<>>
        ELSE IF rest = <<>> THEN <<SubSeq(t, 1, i - 1)>>
        ELSE <<SubSeq(t, 1, i - 1), rest>>

\* parse_host_entry: ok = FALSE stands for the ValueError.
parse_host_entry(entry) ==
    LET parts == SplitMax1(Strip(entry))
    IN  IF Len(parts) # 2
        THEN [ok |-> FALSE, ip |-> <<>>, hostname |-> <<>>]
        ELSE [ok |-> TRUE, ip |-> parts[1], hostname |-> parts[2]]

\* ------------------------------------------------------ backend payloads
\* Host entries a backend may return: "1 h", "2 h" (same name, other
\* address), " 1  g " (padded) and "x" (one token, malformed).
HostEntries ==
    { <<"1", " ", "h">>, <<"2", " ", "h">>,
      <<" ", "1", " ", " ", "g", " ">>, <<"x">> }

\* CNAME objects a backend may return; a field that is absent (or JSON null)
\* is a field missing from the record.
AliasEntries ==
    { [domain |-> <<"w">>, target |-> <<"h">>],
      [domain |-> <<"w">>, target |-> <<"g">>],
      [domain |-> <<"w">>, target |-> <<>>],
      [target |-> <<"h">>] }

\* parse_host_entry on the entries a backend may return, worked out once.
ParsedEntry == [e \in HostEntries |-> parse_host_entry(e)]

BoundedSeq(S, n) == UNION { [1..k -> S] : k \in 0..n }

HostBatches == BoundedSeq(HostEntries, MaxBatch)
AliasBatches == BoundedSeq(AliasEntries, MaxBatch)

\* What one HTTP attempt can produce.  status 0 is a connection-level
\* failure (refused, reset, timed out); json = FALSE is a 200 whose body is
\* not the expected JSON document.
Resp(st, ra, js) == [status |-> st, retryAfter |-> ra, json |-> js]
NoResp == Resp(-1, FALSE, FALSE)
Responses ==
    { Resp(200, FALSE, TRUE), Resp(200, FALSE, FALSE),
      Resp(401, FALSE, FALSE), Resp(413, FALSE, FALSE), Resp(413, TRUE, FALSE),
      Resp(429, FALSE, FALSE), Resp(503, FALSE, FALSE), Resp(0, FALSE, FALSE) }

\* Session ids the auth endpoint may return: a token, or none / an empty one.
Token == <<"t">>
NoSid == <<>>
SidBodies == {Token, NoSid}

\* ------------------------------------------------------------ retry policy
\* urllib3 Retry.is_retry for a response with an HTTP status; total is the
\* number of retries still allowed.  Both methods used (GET, POST) are in
\* allowed_methods.
is_retry(total, r) ==
    \/ r.status \in status_forcelist
    \/ total # 0 /\ r.retryAfter /\ r.status \in RETRY_AFTER_STATUS_CODES

\* Variant: the last allowed retry is never sent (a limit on attempts).
is_exhausted_at_zero(total) == total <= 0

\* urllib3 Retry.is_exhausted, applied to the decremented counter.
is_exhausted(total) == total < 0

\* One attempt of session.post / session.get followed by raise_for_status
\* and json(): "retry" (the adapter sends the request again), "exhausted"
\* (MaxRetryError), "status" (HTTPError), "body" (the JSON is unusable) or
\* "ok".
Attempt(total, r) ==
    IF r.status = 0 \/ is_retry(total, r)
    THEN IF is_exhausted(total - 1) THEN "exhausted" ELSE "retry"
    ELSE IF r.status >= 400 THEN "status"
    ELSE IF ~r.json THEN "body"
    ELSE "ok"

\* ------------------------------------------------------------------ merge
EmptyMap == [k \in {} |-> <<>>]

Put(m, key, val) ==
    [k \in DOMAIN m \cup {key} |-> IF k = key THEN val ELSE m[k]]

\* Variant: the later record overwrites (last-write-wins).
MergeRecordLast(m, key, val) == Put(m, key, val)

\* Variant: a key seen again is dropped from the mapping.
MergeRecordEvict(m, key, val) ==
    IF key \notin DOMAIN m THEN Put(m, key, val)
    ELSE [k \in DOMAIN m \ {key} |-> m[k]]

\* `if key not in records: records[key] = value`
MergeRecord(m, key, val) == IF key \notin DOMAIN m THEN Put(m, key, val) ELSE m

\* The else branch: logger.warning("Duplicate ... (keeping: ...)").
WarnDuplicate(w, kind, m, key, val) ==
    IF key \in DOMAIN m
    THEN w \cup {[kind |-> kind, key |-> key, rejected |-> val, kept |-> m[key]]}
    ELSE w

\* The loop over the host entries.  raised = TRUE: parse_host_entry raised
\* and the loop was left with what had been merged so far.
RECURSIVE HostLoop(_, _, _, _)
HostLoop(entries, k, m, w) ==
    IF k > Len(entries) THEN [m |-> m, w |-> w, raised |-> FALSE]
    ELSE LET p == ParsedEntry[entries[k]]
         IN  IF ~p.ok THEN [m |-> m, w |-> w, raised |-> TRUE]
             ELSE HostLoop(entries, k + 1,
                           MergeRecord(m, p.hostname, p.ip),
                           WarnDuplicate(w, "A/AAAA", m, p.hostname, p.ip))

\* rec.get(field): the value, or None (modelled as the empty string, which
\* `not` treats alike) when the field is absent.
Get(rec, field) == IF field \in DOMAIN rec THEN rec[field] ELSE <<>>

\* Variant: only the domain field is checked.
IsMalformedAliasDomainOnly(rec) == Get(rec, "domain") = <<>>

\* `if not domain or not target`
IsMalformedAlias(rec) == Get(rec, "domain") = <<>> \/ Get(rec, "target") = <<>>

\* The loop over the CNAME objects.
RECURSIVE AliasLoop(_, _, _, _)
AliasLoop(recs, k, m, w) ==
    IF k > Len(recs) THEN [m |-> m, w |-> w, raised |-> FALSE]
    ELSE LET domain == Get(recs[k], "domain")
             target == Get(recs[k], "target")
         IN  IF IsMalformedAlias(recs[k])
             THEN AliasLoop(recs, k + 1, m,
                            w \cup {[kind |-> "Malformed CNAME", key |-> domain,
                                     rejected |-> target, kept |-> <<>>]})
             ELSE AliasLoop(recs, k + 1,
                            MergeRecord(m, domain, target),
                            WarnDuplicate(w, "CNAME", m, domain, target))

\* `if not self._sid`
NeedsAuth(s) == s = NoSid

\* Variant: _auth returns whatever "sid" holds, an empty value included.
AcceptsAnySid(body) == TRUE

\* `if not sid: raise ValueError(...)` in _auth.
AcceptsSid(body) == body # NoSid

\* Variant: the exception leaves the for loop.
AfterFailureAbort(i, count) == count + 1

\* Variant: the failed server is tried again.
AfterFailureStay(i, count) == i

\* Where the for loop goes after the except clause.
AfterFailure(i, count) == i + 1

\* ------------------------------------------------------------------ state
VARIABLES
    n,               \* len(servers)
    idx,             \* position of the for loop in servers (1-based)
    pc,              \* where extract_records stands
    sid,             \* api._sid of the current client (NoSid: None)
    retry,           \* retries the adapter still allows the request in flight
    hosts,           \* the list get_hosts returned for the current server
    cnames,          \* the list get_cnames returned for the current server
    a_aaaa_records,  \* hostname -> ip
    cname_records,   \* alias -> target
    warnings,        \* what logger.warning was called with
    err,             \* the exception on its way to the except clause
    scenario,        \* what the backends serve (the environment)
    \* history, not read by the program:
    attempts,        \* attempts made so far of the request in flight
    authOK,          \* successful authentications of the current client
    dataSent,        \* the current client has sent a GET
    last,            \* response that made the request in flight retry or fail
    uniform,         \* every response to the request in flight was the same
    outcome,         \* per server: "pending", "ok", or what ended it (err.cause)
    contacted,       \* the servers that were sent at least one request
    prev,            \* the two mappings and the warnings when the current
                     \* server was started
    firstA, firstC,  \* per key, the value of the first record merged for it
    okA, okC,        \* the merge of the batches of the servers that succeeded
    pendA,           \* okA merged with the host batch of the current server
    \* main, after extract_records:
    file,            \* the output file: untouched, written (with its document)
                     \* or left truncated by a failed dump
    exit_code,       \* what main returned (-1: not yet)
    \* the functions run on their own (parse_host_entry, write_if_changed,
    \* build_inventory_map): their input and what they produced
    fn_in,
    fn_out

vars == <<n, idx, pc, sid, retry, hosts, cnames, a_aaaa_records, cname_records,
          warnings, err, scenario, attempts, authOK, dataSent, last, uniform,
          outcome, contacted,
          prev, firstA, firstC, okA, okC, pendA, file, exit_code, fn_in,
          fn_out>>

\* What the actions of extract_records leave alone.
others == <<file, exit_code, fn_in, fn_out>>

NoErr == [ep |-> "none", cause |-> "none"]

\* Variant: both counts taken from the A/AAAA mapping.
OutputDataOneCount(a_aaaa, cnames_) ==
    [a_aaaa |-> a_aaaa,
     cname |-> cnames_,
     metadata |-> [generated_by |-> "extract_pihole_dns.py",
                   source |-> "Pi-hole v6+ REST API",
                   count_a_aaaa |-> Cardinality(DOMAIN a_aaaa),
                   count_cname |-> Cardinality(DOMAIN a_aaaa)]]

\* The document main dumps: the two mappings and the metadata block.
OutputData(a_aaaa, cnames_) ==
    [a_aaaa |-> a_aaaa,
     cname |-> cnames_,
     metadata |-> [generated_by |-> "extract_pihole_dns.py",
                   source |-> "Pi-hole v6+ REST API",
                   count_a_aaaa |-> Cardinality(DOMAIN a_aaaa),
                   count_cname |-> Cardinality(DOMAIN cnames_)]]

\* The failed sources a document names: the metadata block has no entry for
\* them (failures go to logger.error only).
FailedSources(doc) ==
    IF "failed_sources" \in DOMAIN doc.metadata
    THEN doc.metadata.failed_sources
    ELSE {}

\* The states of the output file.
Untouched == [status |-> "untouched", data |-> OutputData(EmptyMap, EmptyMap)]
Written(doc) == [status |-> "written", data |-> doc]
Truncated == [status |-> "truncated", data |-> OutputData(EmptyMap, EmptyMap)]
FreeScenario == [replay |-> FALSE, hosts |-> <<>>, cnames |-> <<>>]

\* What the backends answer: anything, or, when they replay fixed batches,
\* the document asked for or a refusal.
Answers ==
    IF scenario.replay
    THEN {Resp(200, FALSE, TRUE), Resp(401, FALSE, FALSE)}
    ELSE Responses

\* The bodies a 200 answer of the hosts / cnames endpoint may carry.
HostBodies == IF scenario.replay THEN {scenario.hosts} ELSE HostBatches
AliasBodies == IF scenario.replay THEN {scenario.cnames} ELSE AliasBatches

\* ------------------------------------------------ history (ghost) helpers
\* The (hostname, ip) pairs the host loop gets to merge: those before the
\* first entry that does not parse.
RECURSIVE HostPairs(_, _)
HostPairs(entries, k) ==
    IF k > Len(entries) \/ ~ParsedEntry[entries[k]].ok THEN <<>>
    ELSE <<<<ParsedEntry[entries[k]].hostname,
             ParsedEntry[entries[k]].ip>>>> \o HostPairs(entries, k + 1)

WellFormedAlias(rec) ==
    /\ "domain" \in DOMAIN rec /\ rec.domain # <<>>
    /\ "target" \in DOMAIN rec /\ rec.target # <<>>

\* The (alias, target) pairs of the well-formed CNAME objects.
RECURSIVE AliasPairs(_, _)
AliasPairs(recs, k) ==
    IF k > Len(recs) THEN <<>>
    ELSE (IF WellFormedAlias(recs[k])
          THEN <<<<recs[k].domain, recs[k].target>>>> ELSE <<>>)
         \o AliasPairs(recs, k + 1)

\* first extended by the pairs whose key it does not have yet.
RECURSIVE FirstOf(_, _)
FirstOf(first, pairs) ==
    IF pairs = <<>> THEN first
    ELSE FirstOf(IF Head(pairs)[1] \in DOMAIN first THEN first
                 ELSE [k \in DOMAIN first \cup {Head(pairs)[1]} |->
                         IF k = Head(pairs)[1] THEN Head(pairs)[2] ELSE first[k]],
                 Tail(pairs))

\* ------------------------------------------------------------------- init
InitCommon ==
    /\ n \in 1..MaxServers
    /\ idx = 1
    /\ pc = "loop"
    /\ sid = NoSid
    /\ retry = DEFAULT_RETRIES
    /\ hosts = <<>>
    /\ cnames = <<>>
    /\ a_aaaa_records = EmptyMap
    /\ cname_records = EmptyMap
    /\ warnings = {}
    /\ err = NoErr
    /\ attempts = 0
    /\ authOK = 0
    /\ dataSent = FALSE
    /\ last = NoResp
    /\ uniform = TRUE
    /\ outcome = [i \in 1..n |-> "pending"]
    /\ contacted = {}
    /\ prev = [a |-> EmptyMap, c |-> EmptyMap, w |-> {}]
    /\ firstA = EmptyMap
    /\ firstC = EmptyMap
    /\ okA = EmptyMap
    /\ okC = EmptyMap
    /\ pendA = EmptyMap
    /\ file = Untouched
    /\ exit_code = -1

\* extract_records is entered with a non-empty server list (main returns
\* before the call otherwise); the backends serve what they like.
Init == InitCommon /\ scenario = FreeScenario /\ fn_in = <<>> /\ fn_out = <<>>

\* ---------------------------------------------------------------- actions
\* Variant: the session id is returned but not kept.
CacheSidDropped(token) == NoSid

\* `self._sid = self._auth()`: the session id the property keeps.
CacheSid(token) == token

\* The adapter sends the request again.
Retried(r) ==
    /\ retry' = retry - 1
    /\ attempts' = attempts + 1
    /\ last' = r
    /\ uniform' = (uniform /\ last \in {NoResp, r})
    /\ UNCHANGED <<pc, err>>

\* The request raised: control passes to the except clause.
Failed(ep, r, cause) ==
    /\ pc' = "except"
    /\ err' = [ep |-> ep, cause |-> cause]
    /\ attempts' = attempts + 1
    /\ last' = r
    /\ uniform' = (uniform /\ last \in {NoResp, r})
    /\ UNCHANGED retry

\* The request returned; the next one starts with the adapter's full Retry.
Succeeded ==
    /\ retry' = DEFAULT_RETRIES
    /\ attempts' = 0
    /\ last' = NoResp
    /\ uniform' = TRUE
    /\ UNCHANGED err

\* for base_url, password in servers: ... api = PiHoleAPI(base_url, password)
StartSource ==
    /\ pc = "loop" /\ idx <= n
    /\ pc' = "get_hosts"
    /\ sid' = NoSid
    /\ retry' = DEFAULT_RETRIES
    /\ prev' = [a |-> a_aaaa_records, c |-> cname_records, w |-> warnings]
    /\ UNCHANGED <<n, idx, hosts, cnames, a_aaaa_records, cname_records,
                   warnings, err, scenario, attempts, authOK, dataSent, last,
                   uniform, outcome, contacted, firstA, firstC, okA, okC,
                   pendA>>
    /\ UNCHANGED others

\* The sid property while _sid is unset: one attempt of the POST in _auth.
Auth ==
    /\ pc \in {"get_hosts", "get_cnames"} /\ NeedsAuth(sid)
    /\ \E r \in Answers :
         LET res == Attempt(retry, r)
         IN  CASE res = "retry" ->
                    Retried(r) /\ UNCHANGED <<sid, authOK>>
               [] res = "ok" ->
                    \E body \in SidBodies :
                       IF AcceptsSid(body)
                       THEN /\ Succeeded
                            /\ sid' = CacheSid(body)
                            /\ authOK' = authOK + 1
                            /\ UNCHANGED pc
                       ELSE Failed("auth", r, "nosid") /\ UNCHANGED <<sid, authOK>>
               [] OTHER ->
                    Failed("auth", r, res) /\ UNCHANGED <<sid, authOK>>
    /\ contacted' = contacted \cup {idx}
    /\ UNCHANGED <<n, idx, hosts, cnames, a_aaaa_records, cname_records,
                   warnings, scenario, dataSent, outcome, prev, firstA, firstC,
                   okA, okC, pendA>>
    /\ UNCHANGED others

\* get_hosts with a session id at hand: one attempt of the GET.
GetHosts ==
    /\ pc = "get_hosts" /\ ~NeedsAuth(sid)
    /\ \E r \in Answers :
         LET res == Attempt(retry, r)
         IN  CASE res = "retry" -> Retried(r) /\ UNCHANGED hosts
               [] res = "ok" ->
                    \E body \in HostBodies :
                       Succeeded /\ hosts' = body /\ pc' = "fold_hosts"
               [] OTHER -> Failed("hosts", r, res) /\ UNCHANGED hosts
    /\ dataSent' = TRUE
    /\ contacted' = contacted \cup {idx}
    /\ UNCHANGED <<n, idx, sid, cnames, a_aaaa_records, cname_records, warnings,
                   scenario, authOK, outcome, prev, firstA, firstC, okA, okC,
                   pendA>>
    /\ UNCHANGED others

\* for entry in hosts: ...   When the loop ends normally the list is not read
\* again (hosts is rebound by the next get_hosts), so it is dropped here.
FoldHosts ==
    /\ pc = "fold_hosts"
    /\ LET res == HostLoop(hosts, 1, a_aaaa_records, warnings)
       IN  /\ a_aaaa_records' = res.m
           /\ warnings' = res.w
           /\ pc' = IF res.raised THEN "except" ELSE "get_cnames"
           /\ err' = IF res.raised THEN [ep |-> "hosts", cause |-> "entry"] ELSE err
           /\ hosts' = IF res.raised THEN hosts ELSE <<>>
    /\ firstA' = FirstOf(firstA, HostPairs(hosts, 1))
    /\ pendA' = FirstOf(okA, HostPairs(hosts, 1))
    /\ UNCHANGED <<n, idx, sid, retry, cnames, cname_records, scenario,
                   attempts, authOK, dataSent, last, uniform, outcome,
                   contacted, prev, firstC, okA, okC>>
    /\ UNCHANGED others

\* get_cnames: one attempt of the GET.
GetCnames ==
    /\ pc = "get_cnames" /\ ~NeedsAuth(sid)
    /\ \E r \in Answers :
         LET res == Attempt(retry, r)
         IN  CASE res = "retry" -> Retried(r) /\ UNCHANGED cnames
               [] res = "ok" ->
                    \E body \in AliasBodies :
                       Succeeded /\ cnames' = body /\ pc' = "fold_cnames"
               [] OTHER -> Failed("cnames", r, res) /\ UNCHANGED cnames
    /\ dataSent' = TRUE
    /\ contacted' = contacted \cup {idx}
    /\ UNCHANGED <<n, idx, sid, hosts, a_aaaa_records, cname_records, warnings,
                   scenario, authOK, outcome, prev, firstA, firstC, okA, okC,
                   pendA>>
    /\ UNCHANGED others

\* for rec in cnames: ... ; after it the try block has run to its end.
FoldCnames ==
    /\ pc = "fold_cnames"
    /\ LET res == AliasLoop(cnames, 1, cname_records, warnings)
       IN  /\ cname_records' = res.m
           /\ warnings' = res.w
           /\ pc' = IF res.raised THEN "except" ELSE "end_try"
           /\ err' = IF res.raised THEN [ep |-> "cnames", cause |-> "entry"] ELSE err
    /\ firstC' = FirstOf(firstC, AliasPairs(cnames, 1))
    /\ UNCHANGED <<n, idx, sid, retry, hosts, cnames, a_aaaa_records, scenario,
                   attempts, authOK, dataSent, last, uniform, outcome,
                   contacted, prev, firstA, okA, okC, pendA>>
    /\ UNCHANGED others

\* The names bound inside the loop body (api, hosts, cnames, e) are dead once
\* the iteration is over: they are rebound before they are read again.
Forget ==
    /\ sid' = NoSid
    /\ retry' = DEFAULT_RETRIES
    /\ hosts' = <<>>
    /\ cnames' = <<>>
    /\ err' = NoErr
    /\ attempts' = 0
    /\ authOK' = 0
    /\ dataSent' = FALSE
    /\ last' = NoResp
    /\ uniform' = TRUE
    /\ pendA' = EmptyMap

\* No exception: the for loop takes the next server.
NextSource ==
    /\ pc = "end_try"
    /\ pc' = "loop"
    /\ idx' = idx + 1
    /\ outcome' = [outcome EXCEPT ![idx] = "ok"]
    /\ okA' = pendA
    /\ okC' = FirstOf(okC, AliasPairs(cnames, 1))
    /\ Forget
    /\ UNCHANGED <<n, a_aaaa_records, cname_records, warnings, scenario,
                   contacted, prev, firstA, firstC>>
    /\ UNCHANGED others

\* except Exception as e: logger.error(...); the for loop goes on.
Except ==
    /\ pc = "except"
    /\ pc' = "loop"
    /\ idx' = AfterFailure(idx, n)
    /\ outcome' = [outcome EXCEPT ![idx] = err.cause]
    /\ Forget
    /\ UNCHANGED <<n, a_aaaa_records, cname_records, warnings, scenario,
                   contacted, prev, firstA, firstC, okA, okC>>
    /\ UNCHANGED others

\* return a_aaaa_records, cname_records
Return ==
    /\ pc = "loop" /\ idx > n
    /\ pc' = "returned"
    /\ UNCHANGED <<n, idx, sid, retry, hosts, cnames, a_aaaa_records,
                   cname_records, warnings, err, scenario, attempts, authOK,
                   dataSent, last, uniform, outcome, contacted, prev, firstA,
                   firstC, okA, okC, pendA>>
    /\ UNCHANGED others

\* main after extract_records: build output_data, open the output file for
\* writing and dump the document.  open may fail (the file is left as it
\* was) and so may the dump (the file is left truncated); both are logged
\* and main returns 1.  Otherwise main returns 0.
Export ==
    /\ pc = "returned"
    /\ pc' = "exit"
    /\ \/ /\ file' = Written(OutputData(a_aaaa_records, cname_records))
          /\ exit_code' = 0
       \/ /\ file' \in {file, Truncated}
          /\ exit_code' = 1
    /\ UNCHANGED <<n, idx, sid, retry, hosts, cnames, a_aaaa_records,
                   cname_records, warnings, err, scenario, attempts, authOK,
                   dataSent, last, uniform, outcome, contacted, prev, firstA,
                   firstC, okA, okC, pendA, fn_in, fn_out>>

Next ==
    \/ StartSource
    \/ Auth
    \/ GetHosts
    \/ FoldHosts
    \/ GetCnames
    \/ FoldCnames
    \/ NextSource
    \/ Except
    \/ Return
    \/ Export

Spec == Init /\ [][Next]_vars

\* The same program against two backends that serve one and the same pair
\* of batches (the same server listed twice, or a fetch done again).
InitReplay ==
    /\ InitCommon
    /\ n = 2
    /\ \E hb \in HostBatches, ab \in AliasBatches :
         scenario = [replay |-> TRUE, hosts |-> hb, cnames |-> ab]
    /\ fn_in = <<>>
    /\ fn_out = <<>>

SpecReplay == InitReplay /\ [][Next]_vars

\* The program runs on: main is a single thread that nothing suspends, so a
\* step that can be taken is taken.
SpecFair == Init /\ [][Next]_vars /\ WF_vars(Next)

\* ------------------------------------------------ functions on their own
\* The extractor with one server, not started: what the functions below
\* leave alone.
Idle == InitCommon /\ n = 1 /\ scenario = FreeScenario
extractor == <<n, idx, pc, sid, retry, hosts, cnames, a_aaaa_records,
               cname_records, warnings, err, scenario, attempts, authOK,
               dataSent, last, uniform, outcome, contacted, prev, firstA,
               firstC, okA, okC, pendA, file, exit_code>>

\* --- parse_host_entry(entry)
EntryChars == {"1", "h", " ", "\t"}
Entries == BoundedSeq(EntryChars, MaxEntryLen)

InitParse == Idle /\ fn_in \in Entries /\ fn_out = <<>>

\* One call: fn_out holds what the call produced.
ParseEntry ==
    /\ fn_out = <<>>
    /\ fn_out' = <<parse_host_entry(fn_in)>>
    /\ UNCHANGED <<fn_in, extractor>>

SpecParse == InitParse /\ [][ParseEntry]_vars

\* --- write_if_changed(path, content)
\* Characters of a text; the file holds text encoded as UTF-8, which decodes
\* to the same characters.
TextChars == {"a", "\r", "\n"}
Texts == BoundedSeq(TextChars, MaxText)

\* The file at path: missing, or holding data.
Absent == [exists |-> FALSE, data |-> <<>>]
OnDisk(d) == [exists |-> TRUE, data |-> d]

\* os.linesep of the POSIX hosts the script runs on.
linesep == <<"\n">>

\* f.read() of a file opened with open(path, "r"): newline is left at None,
\* so "\r\n" and "\r" are both returned as "\n".
RECURSIVE ReadText(_)
ReadText(d) ==
    IF d = <<>> THEN <<>>
    ELSE IF Head(d) = "\r"
         THEN <<"\n">> \o ReadText(IF Len(d) >= 2 /\ d[2] = "\n"
                                   THEN Tail(Tail(d)) ELSE Tail(d))
         ELSE <<Head(d)>> \o ReadText(Tail(d))

\* f.write(content) to a file opened with open(path, "w"): newline is left
\* at None, so each "\n" is written as os.linesep.
RECURSIVE WriteText(_)
WriteText(t) ==
    IF t = <<>> THEN <<>>
    ELSE (IF Head(t) = "\n" THEN linesep ELSE <<Head(t)>>) \o WriteText(Tail(t))

\* write_if_changed: the file afterwards and the value returned.
write_if_changed(path, content) ==
    IF path.exists /\ ReadText(path.data) = content
    THEN [path |-> path, ret |-> FALSE]
    ELSE [path |-> OnDisk(WriteText(content)), ret |-> TRUE]

\* fn_in is the file, fn_out the calls made so far.
InitWrite ==
    /\ Idle
    /\ fn_in \in {Absent} \cup {OnDisk(d) : d \in Texts}
    /\ fn_out = <<>>

\* One call, of at most two in a row.
WriteIfChanged ==
    /\ Len(fn_out) < 2
    /\ \E content \in Texts :
         LET r == write_if_changed(fn_in, content)
         IN  /\ fn_in' = r.path
             /\ fn_out' = Append(fn_out, [before |-> fn_in,
                                          content |-> content,
                                          ret |-> r.ret,
                                          after |-> r.path])
    /\ UNCHANGED extractor

SpecWrite == InitWrite /\ [][WriteIfChanged]_vars

\* --- build_inventory_map(vms, prefer_fqdn, prefer_ip)
\* str.lower() and the code points str comparison goes by.
lower(c) == CASE c = "A" -> "a" [] c = "C" -> "c" [] OTHER -> c
Lower(s) == [i \in 1..Len(s) |-> lower(s[i])]
CodePoint(c) ==
    CASE c = "1" -> 49 [] c = "2" -> 50 [] c = "A" -> 65 [] c = "C" -> 67
      [] c = "a" -> 97 [] c = "b" -> 98 [] c = "c" -> 99

\* s < t on strings.
RECURSIVE StrLess(_, _)
StrLess(s, t) ==
    IF t = <<>> THEN FALSE
    ELSE IF s = <<>> THEN TRUE
    ELSE IF Head(s) = Head(t) THEN StrLess(Tail(s), Tail(t))
    ELSE CodePoint(Head(s)) < CodePoint(Head(t))

\* sorted(items, key=...) on <<key, item>> pairs: the items in ascending key
\* order, items of equal key in the order they came in (the sort is stable).
RECURSIVE InsertByKey(_, _)
InsertByKey(done, x) ==
    IF done = <<>> THEN <<x>>
    ELSE IF StrLess(x[1], Head(done)[1]) THEN <<x>> \o done
    ELSE <<Head(done)>> \o InsertByKey(Tail(done), x)

RECURSIVE SortedPairs(_, _)
SortedPairs(done, todo) ==
    IF todo = <<>> THEN done
    ELSE SortedPairs(InsertByKey(done, Head(todo)), Tail(todo))

sorted(keyed) ==
    LET res == SortedPairs(<<>>, keyed) IN [i \in 1..Len(res) |-> res[i][2]]

\* A VM as build_inventory_map sees it: is_ubuntu_vm, best_alias,
\* best_ansible_host and get_cluster_name of the object.
VMs ==
    { [ubuntu |-> TRUE, alias |-> a, host |-> h, cluster |-> c] :
        a \in {<<"a">>, <<"A">>, <<"b">>},
        h \in {<<"1">>, <<"2">>},
        c \in {<<"c">>, <<"C">>} }
    \cup { [ubuntu |-> FALSE, alias |-> <<"b">>, host |-> <<"1">>,
            cluster |-> <<"c">>] }

\* The ways to list a finite set.
Orderings(S) ==
    { q \in [1..Cardinality(S) -> S] :
        \A i, j \in 1..Cardinality(S) : i # j => q[i] # q[j] }

\* The loop over vms: the cluster names in the order the dict got them, and
\* the (alias, ansible_host) list of a cluster.
RECURSIVE ClusterKeys(_, _)
ClusterKeys(vms, seen) ==
    IF vms = <<>> THEN <<>>
    ELSE IF Head(vms).ubuntu /\ Head(vms).cluster \notin seen
         THEN <<Head(vms).cluster>>
              \o ClusterKeys(Tail(vms), seen \cup {Head(vms).cluster})
         ELSE ClusterKeys(Tail(vms), seen)

ClusterEntries(vms, c) ==
    { <<vms[i].alias, vms[i].host>> :
        i \in { j \in 1..Len(vms) : vms[j].ubuntu /\ vms[j].cluster = c } }

\* Iterating set(clusters[c]): the members in the order iteration yields
\* them, iter being one listing of every (alias, ansible_host) at hand.
SetIter(S, iter) == SelectSeq(iter, LAMBDA e : e \in S)

\* build_inventory_map as a list of <<cluster, entries>>, in dict order.
build_inventory_map(vms, iter) ==
    LET keys == ClusterKeys(vms, {})
        entries(c) ==
            LET members == SetIter(ClusterEntries(vms, c), iter)
            IN  sorted([i \in 1..Len(members) |->
                           <<Lower(members[i][1]), members[i]>>])
    IN  sorted([i \in 1..Len(keys) |->
                   <<Lower(keys[i]), <<keys[i], entries(keys[i])>>>>])

\* fn_in is the VM list, fn_out the results obtained for it so far.
InitInventory == Idle /\ fn_in \in BoundedSeq(VMs, MaxVMs) /\ fn_out = {}

\* One call on the same VMs, listed by vCenter in any order, set iteration
\* going in any order; a result not seen before is recorded.
BuildInventory ==
    /\ \E order \in Orderings(1..Len(fn_in)) :
         \E iter \in Orderings(UNION { ClusterEntries(fn_in, c) :
                                        c \in {<<"c">>, <<"C">>} }) :
            LET vms == [i \in 1..Len(fn_in) |-> fn_in[order[i]]]
                res == build_inventory_map(vms, iter)
            IN  /\ res \notin fn_out
                /\ fn_out' = fn_out \cup {res}
    /\ UNCHANGED <<fn_in, extractor>>

SpecInventory == InitInventory /\ [][BuildInventory]_vars

\* ----------------------------------------------------------------- claims
TransientStatuses == {429, 500, 502, 503, 504}
ClientErrors == 400..499

FailureIsolation ==
    /\ idx \in 1..(n + 1)
    /\ pc \notin {"loop", "returned", "exit"} => idx <= n
    /\ pc \in {"returned", "exit"} =>
         /\ idx = n + 1
         /\ contacted = 1..n
         /\ \A i \in 1..n : outcome[i] # "pending"
    /\ \A i \in 1..n : outcome[i] # "pending" => i < idx /\ i \in contacted

\* The first server failed and the second was still extracted in full.
FailureIsolationWitness ==
    /\ pc = "returned" /\ n = 2
    /\ outcome[1] \notin {"ok", "pending"}
    /\ outcome[2] = "ok"
    /\ a_aaaa_records # EmptyMap

\* C3: partial failure (the claim as stated).  When extract_records returns
\* and the servers that failed did so in a fetch (authentication included),
\* the two mappings are the merge of the batches of the servers that did not
\* fail, and hold nothing a failed server contributed.
PartialFailureClaim ==
    (pc = "returned" /\ \A i \in 1..n : outcome[i] # "entry") =>
        a_aaaa_records = okA /\ cname_records = okC

\* C4: malformed host entries are isolated (the claim as stated).  When a
\* host entry does not parse, every well-formed entry of the same batch still
\* has its hostname in the A/AAAA mapping.
MalformedHostIsolatedClaim ==
    (pc = "except" /\ err = [ep |-> "hosts", cause |-> "entry"]) =>
        \A k \in 1..Len(hosts) :
            parse_host_entry(hosts[k]).ok =>
                parse_host_entry(hosts[k]).hostname \in DOMAIN a_aaaa_records

\* C5: malformed alias entries are isolated.  No alias with an empty or
\* missing domain or target is ever in the CNAME mapping; a malformed object
\* never ends the server's iteration; and after the loop every well-formed
\* object of the batch has its alias in the mapping.
MalformedAliasIsolated ==
    /\ \A k \in DOMAIN cname_records : k # <<>> /\ cname_records[k] # <<>>
    /\ pc = "except" => err # [ep |-> "cnames", cause |-> "entry"]
    /\ pc = "end_try" =>
         \A k \in 1..Len(cnames) :
            WellFormedAlias(cnames[k]) => cnames[k].domain \in DOMAIN cname_records

\* A batch whose first object is malformed and whose second is well formed
\* was folded: the second one was inserted by this very server.
MalformedAliasIsolatedWitness ==
    /\ pc = "end_try"
    /\ Len(cnames) = 2
    /\ ~WellFormedAlias(cnames[1])
    /\ WellFormedAlias(cnames[2])
    /\ cnames[2].domain \in DOMAIN cname_records
    /\ cnames[2].domain \notin DOMAIN prev.c

\* C6 (the claim as stated): a request whose every attempt was answered 503
\* fails after exactly DEFAULT_RETRIES attempts.
RetryBoundClaim ==
    (pc = "except" /\ uniform /\ last.status = 503) => attempts = DEFAULT_RETRIES

\* C6 (amended): a request whose every attempt was answered 503 fails by
\* exhaustion after exactly DEFAULT_RETRIES + 1 attempts (the first one and
\* DEFAULT_RETRIES retries); no request is attempted more often than that.
RetryBound ==
    /\ attempts <= DEFAULT_RETRIES + 1
    /\ (uniform /\ last.status = 503) =>
         /\ pc = "except" => err.cause = "exhausted" /\ attempts = DEFAULT_RETRIES + 1
         /\ pc # "except" => attempts <= DEFAULT_RETRIES

\* The hosts endpoint answered 503 to every attempt and the server failed.
RetryBoundWitness ==
    /\ pc = "except" /\ err = [ep |-> "hosts", cause |-> "exhausted"]
    /\ uniform /\ last.status = 503
    /\ attempts = DEFAULT_RETRIES + 1

\* C7 (the claim as stated): a retry follows only a 429/500/502/503/504 or a
\* connection-level failure; any other 4xx answer ends the request at once,
\* after a single attempt when it is the first answer.
NonRetryableClaim ==
    /\ (last # NoResp /\ pc # "except") => last.status \in TransientStatuses \cup {0}
    /\ last.status \in ClientErrors \ {429} =>
         /\ pc = "except"
         /\ uniform => attempts = 1

\* The 4xx answers the amended claim speaks of: not 429, and not a 413 that
\* carries a Retry-After header.
NonTransient(r) ==
    /\ r.status \in ClientErrors \ {429}
    /\ ~(r.status = 413 /\ r.retryAfter)

\* C7 (amended): a retry follows only a 429/500/502/503/504, a connection-
\* level failure or a 413 carrying Retry-After; any other 4xx answer ends the
\* request at once, after a single attempt when it is the first answer.
NonRetryable ==
    /\ (last # NoResp /\ pc # "except") =>
         \/ last.status \in TransientStatuses \cup {0}
         \/ last.status = 413 /\ last.retryAfter
    /\ NonTransient(last) =>
         /\ pc = "except" /\ err.cause = "status"
         /\ uniform => attempts = 1

\* The auth endpoint answered 401 and the server failed on the first attempt.
NonRetryableWitness ==
    /\ pc = "except" /\ err = [ep |-> "auth", cause |-> "status"]
    /\ last.status = 401
    /\ attempts = 1

MergeIdempotent ==
    (/\ scenario.replay
     /\ pc = "loop" /\ idx = 3
     /\ outcome[1] = outcome[2]
     /\ outcome[1] \in {"ok", "entry"}) =>
        /\ a_aaaa_records = prev.a
        /\ cname_records = prev.c

\* Both servers were folded in full and both mappings have entries.
MergeIdempotentWitness ==
    /\ scenario.replay
    /\ pc = "loop" /\ idx = 3
    /\ outcome[1] = "ok" /\ outcome[2] = "ok"
    /\ a_aaaa_records # EmptyMap
    /\ cname_records # EmptyMap

\* C10: conflict recording (the claim as stated).  A duplicate warning is
\* recorded only for a record whose value differs from the value kept.
ConflictRecordingClaim ==
    \A w \in warnings :
        w.kind \in {"A/AAAA", "CNAME"} => w.rejected # w.kept

\* C11: exit code (the claim as stated).  main returns 0 exactly when the
\* artifact was written and at least one server was extracted without
\* failure; when every server failed, or the write failed, it returns
\* non-zero.
ExitCodeClaim ==
    pc = "exit" =>
        (exit_code = 0 <=>
            (file.status = "written" /\ \E i \in 1..n : outcome[i] = "ok"))

\* C12: failure provenance (the claim as stated).  The metadata written with
\* the artifact names the servers that failed: a server is in the list if and
\* only if it failed.
FailureProvenanceClaim ==
    file.status = "written" =>
        FailedSources(file.data) = {i \in 1..n : outcome[i] # "ok"}

\* C13: last-write-wins (the claim as stated, from the module docstring).
\* When a server reports a key that an earlier server reported with another
\* value, no server having failed, and it is the one duplicate seen for that
\* key, the value kept is the later server's.
LastWriteWinsClaim ==
    \A w \in warnings \ prev.w :
        (/\ \A i \in 1..n : outcome[i] \in {"ok", "pending"}
         /\ w.key \in DOMAIN prev.a \cup DOMAIN prev.c
         /\ \A v \in warnings : (v.kind = w.kind /\ v.key = w.key) => v = w) =>
            /\ w.kind = "A/AAAA" => a_aaaa_records[w.key] = w.rejected
            /\ w.kind = "CNAME" => cname_records[w.key] = w.rejected

\* C14: fold after fetch (the claim as stated).  While a fetch of the current
\* server is still to be done, host fetch or alias fetch, the two mappings
\* are what they were when the server was started.
FoldAfterFetchClaim ==
    pc \in {"get_hosts", "fold_hosts", "get_cnames"} =>
        /\ a_aaaa_records = prev.a
        /\ cname_records = prev.c

\* C15: the export.  Nothing touches the output file before extract_records
\* has returned.  main then writes it whatever the mappings hold: when it
\* returns 0 the file holds exactly the two final mappings, and the two
\* counts are their numbers of keys; it returns 1 only when the write itself
\* failed.
ExportWritesMappings ==
    /\ pc # "exit" => file = Untouched /\ exit_code = -1
    /\ pc = "exit" =>
         \/ /\ exit_code = 0
            /\ file.status = "written"
            /\ file.data.a_aaaa = a_aaaa_records
            /\ file.data.cname = cname_records
            /\ file.data.metadata.count_a_aaaa =
                   Cardinality(DOMAIN a_aaaa_records)
            /\ file.data.metadata.count_cname =
                   Cardinality(DOMAIN cname_records)
         \/ /\ exit_code = 1
            /\ file.status # "written"

\* Every server failed, both mappings are empty, and the artifact was
\* written all the same.
ExportWritesMappingsWitness ==
    /\ pc = "exit" /\ exit_code = 0 /\ n = 2
    /\ \A i \in 1..n : outcome[i] # "ok"
    /\ a_aaaa_records = EmptyMap /\ cname_records = EmptyMap
    /\ file = Written(OutputData(EmptyMap, EmptyMap))

\* C18: no fetch without a session.  An authentication that succeeded left a
\* non-empty token; a data GET was sent only by a client that holds one; and
\* when the authentication fails the client holds no token, has sent no data
\* request, and the two mappings are what they were when the server was
\* started.
NoFetchWithoutSession ==
    /\ authOK >= 1 => sid # NoSid
    /\ dataSent => authOK >= 1 /\ sid # NoSid
    /\ (pc = "except" /\ err.ep = "auth") =>
         /\ sid = NoSid
         /\ ~dataSent
         /\ a_aaaa_records = prev.a
         /\ cname_records = prev.c

\* The authentication of the second server answered 200 without a session
\* id, after the first server had contributed records.
NoFetchWithoutSessionWitness ==
    /\ pc = "except" /\ err = [ep |-> "auth", cause |-> "nosid"]
    /\ idx = 2
    /\ a_aaaa_records # EmptyMap
    /\ ~dataSent

\* C19: termination.  Every run reaches the end of main: all servers have
\* been visited, in list order, and an exit code has been returned.
Termination ==
    <>(/\ pc = "exit"
       /\ exit_code \in {0, 1}
       /\ idx = n + 1
       /\ contacted = 1..n)

\* A run in which both servers were retried until the adapter gave up, and
\* which ended all the same.
TerminationWitness ==
    /\ pc = "exit" /\ n = 2
    /\ outcome[1] = "exhausted" /\ outcome[2] = "exhausted"

\* Helpers for C16: a string without whitespace, and the number of tokens
\* of a string (maximal runs of characters that are not whitespace).
NoSpace(s) == \A i \in 1..Len(s) : ~IsSpace(s[i])
NumTokens(s) ==
    Cardinality({ i \in 1..Len(s) :
                    ~IsSpace(s[i]) /\ (i = 1 \/ IsSpace(s[i - 1])) })

\* C16 (the claim as stated): an entry "<address> <rest>", address a token
\* without whitespace, rest non-empty and not starting with whitespace (it
\* may hold whitespace inside or at its end), parses to exactly
\* (address, rest); an entry of zero or one token is an error.
ParsePairClaim ==
    Len(fn_out) = 1 =>
        /\ \A k \in 1..Len(fn_in) :
             LET address == SubSeq(fn_in, 1, k - 1)
                 rest == SubSeq(fn_in, k + 1, Len(fn_in))
             IN  (/\ fn_in[k] = " "
                  /\ address # <<>>
                  /\ NoSpace(address)
                  /\ rest # <<>>
                  /\ ~IsSpace(rest[1])) =>
                     fn_out[1] = [ok |-> TRUE, ip |-> address,
                                  hostname |-> rest]
        /\ NumTokens(fn_in) <= 1 => ~fn_out[1].ok

\* C16: an entry "<address> <rest>", address a token without whitespace,
\* rest non-empty and neither starting nor ending with
\* whitespace (it may hold whitespace inside), parses to exactly
\* (address, rest); an entry of zero or one token is an error.
ParsePair ==
    Len(fn_out) = 1 =>
        /\ \A k \in 1..Len(fn_in) :
             LET address == SubSeq(fn_in, 1, k - 1)
                 rest == SubSeq(fn_in, k + 1, Len(fn_in))
             IN  (/\ fn_in[k] = " "
                  /\ address # <<>>
                  /\ NoSpace(address)
                  /\ rest # <<>>
                  /\ ~IsSpace(rest[1])
                  /\ ~IsSpace(rest[Len(rest)])) =>
                     fn_out[1] = [ok |-> TRUE, ip |-> address,
                                  hostname |-> rest]
        /\ NumTokens(fn_in) <= 1 => ~fn_out[1].ok

\* "1 h h" was parsed: the rest holds whitespace inside and is returned whole.
ParsePairWitness ==
    /\ fn_in = <<"1", " ", "h", " ", "h">>
    /\ fn_out = <<[ok |-> TRUE, ip |-> <<"1">>, hostname |-> <<"h", " ", "h">>]>>

\* C17 (the claim as stated): a call returns False, and writes nothing,
\* exactly when the file existed with the content given; after any call the
\* file holds the content given; so a call that repeats the content of the
\* call before it returns False.
IdempotentWriteClaim ==
    \A k \in 1..Len(fn_out) :
        /\ ~fn_out[k].ret <=>
              (fn_out[k].before.exists
               /\ fn_out[k].before.data = fn_out[k].content)
        /\ ~fn_out[k].ret => fn_out[k].after = fn_out[k].before
        /\ fn_out[k].after = OnDisk(fn_out[k].content)
        /\ (k >= 2 /\ fn_out[k - 1].content = fn_out[k].content) =>
              ~fn_out[k].ret

\* C20 (the claim as stated): whatever the order of the VM list and of set
\* iteration, build_inventory_map gives one and the same result; no entry
\* is listed twice in a cluster, and clusters and entries come in ascending
\* order of their lower-cased name and alias.
BuildDeterministicClaim ==
    /\ Cardinality(fn_out) <= 1
    /\ \A res \in fn_out :
         /\ \A i, j \in 1..Len(res) :
              i < j => ~StrLess(Lower(res[j][1]), Lower(res[i][1]))
         /\ \A g \in 1..Len(res) :
              \A i, j \in 1..Len(res[g][2]) :
                 i < j =>
                    /\ res[g][2][i] # res[g][2][j]
                    /\ ~StrLess(Lower(res[g][2][j][1]), Lower(res[g][2][i][1]))

====
